---- MODULE Spec2Model ----
(***************************************************************************)
(* Model of static/script.js: the result-rendering pipeline                *)
(* (displayResult -> formatSuccessResult -> formatData -> formatObject),   *)
(* the panel request handlers that feed it, and the display regions.       *)
(*                                                                         *)
(* Text is a sequence of one-character strings.  An HTML fragment is a     *)
(* sequence whose elements are either such characters or one of the        *)
(* literal markup pieces of the template strings of script.js (Markup).    *)
(* Values are assumed to hold no markup of their own.                      *)
(*                                                                         *)
(* A JSON value is a record with a tag t and a payload v:                  *)
(*   null, bool (BOOLEAN), num (Nat), str (text), arr (sequence of         *)
(*   values), obj (sequence of <<key, value>> in iteration order).         *)
(***************************************************************************)
EXTENDS Naturals, Sequences, FiniteSets, TLC

VARIABLES
  region,   \* region[p]: innerHTML and class list of display region p
  pending,  \* pending[p]: requests of panel p's handler awaiting fetch,
            \* oldest first; TRUE for one that a later request of the
            \* panel has already overtaken by settling before it
  last,     \* the most recent handler step: what was displayed and how
  key,      \* an object key handed to the key humanization
  label,    \* its humanized label
  chatHistory,   \* the array chatHistory
  chatMessages,  \* the children of #chat-messages, in document order
  chatInput,     \* the value of #chat-input
  sendDisabled,  \* the disabled flag of .chat-send-btn
  chatPending,   \* the calls of sendChatMessage awaiting fetch, oldest first
  lastChat       \* the most recent step of the chat panel

panelVars == <<region, pending, last>>
keyVars == <<key, label>>
chatVars ==
  <<chatHistory, chatMessages, chatInput, sendDisabled, chatPending, lastChat>>

vars == <<region, pending, last, key, label, chatHistory, chatMessages,
          chatInput, sendDisabled, chatPending, lastChat>>

(***************************************************************************)
(* Bounds of the model.                                                    *)
(***************************************************************************)
MaxLen == 2       \* longest sequence rendered as cards
MaxKeyLen == 3    \* longest key handed to the humanization alone
MaxPending == 2   \* requests one panel has in flight together
MaxChatLog == 5   \* entries of chatHistory after which no message is sent

(***************************************************************************)
(* Characters and text.                                                    *)
(***************************************************************************)
LowerCase == <<"a","b","c","d","e","f","g","h","i","j","k","l","m",
               "n","o","p","q","r","s","t","u","v","w","x","y","z">>
UpperCase == <<"A","B","C","D","E","F","G","H","I","J","K","L","M",
               "N","O","P","Q","R","S","T","U","V","W","X","Y","Z">>
Digits == <<"0","1","2","3","4","5","6","7","8","9">>

Range(s) == {s[i] : i \in DOMAIN s}

\* String.prototype.toUpperCase on one character
ToUpperCase(c) ==
  IF \E i \in DOMAIN LowerCase : LowerCase[i] = c
  THEN UpperCase[CHOOSE i \in DOMAIN LowerCase : LowerCase[i] = c]
  ELSE c

\* the regular expression class \w
IsWordChar(c) ==
  c \in Range(LowerCase) \cup Range(UpperCase) \cup Range(Digits) \cup {"_"}

\* key.replace(/_/g, " ")
ReplaceUnderscores(s) == [i \in DOMAIN s |-> IF s[i] = "_" THEN " " ELSE s[i]]

\* position i of s is matched by /\b\w/
AtWordStart(s, i) ==
  /\ IsWordChar(s[i])
  /\ (i = 1 \/ ~IsWordChar(s[i - 1]))

\* s.replace(/\b\w/g, (l) => l.toUpperCase())
CapitalizeWords(s) ==
  [i \in DOMAIN s |-> IF AtWordStart(s, i) THEN ToUpperCase(s[i]) ELSE s[i]]

\* a slip: only the first character of the label is upper-cased
FormatKeyFirstOnly(k) ==
  [i \in DOMAIN k |-> IF i = 1 THEN ToUpperCase(ReplaceUnderscores(k)[i])
                                ELSE ReplaceUnderscores(k)[i]]

\* formattedKey of formatObject
FormatKey(k) == CapitalizeWords(ReplaceUnderscores(k))

RECURSIVE NumToText(_)
\* String(n) for a natural number n
NumToText(n) ==
  IF n < 10 THEN <<Digits[n + 1]>>
  ELSE NumToText(n \div 10) \o <<Digits[(n % 10) + 1]>>

RECURSIVE Spaces(_)
Spaces(n) == IF n = 0 THEN <<>> ELSE <<" ">> \o Spaces(n - 1)

RECURSIVE Flatten(_)
\* the concatenation of a sequence of sequences
Flatten(ss) == IF ss = <<>> THEN <<>> ELSE Head(ss) \o Flatten(Tail(ss))

RECURSIVE Join(_, _)
\* Array.prototype.join with separator sep
Join(ss, sep) ==
  IF ss = <<>> THEN <<>>
  ELSE IF Len(ss) = 1 THEN ss[1]
  ELSE ss[1] \o sep \o Join(Tail(ss), sep)

(***************************************************************************)
(* JSON values.                                                            *)
(***************************************************************************)
Undefined == [t |-> "undefined"]
Null == [t |-> "null"]
Bool(b) == [t |-> "bool", v |-> b]
Num(n) == [t |-> "num", v |-> n]
Str(s) == [t |-> "str", v |-> s]
Arr(a) == [t |-> "arr", v |-> a]
Obj(o) == [t |-> "obj", v |-> o]

K_status == <<"s","t","a","t","u","s">>
K_success == <<"s","u","c","c","e","s","s">>
K_data == <<"d","a","t","a">>
K_result == <<"r","e","s","u","l","t">>
K_metadata == <<"m","e","t","a","d","a","t","a">>

\* Array.isArray(x)
IsArray(x) == x.t = "arr"

\* typeof x === "object" (true of null as well)
TypeofObject(x) == x.t \in {"null", "arr", "obj"}

\* the truthiness of x, as tested by if (x)
Truthy(x) ==
  CASE x.t = "bool" -> x.v
    [] x.t = "num" -> x.v # 0
    [] x.t = "str" -> x.v # <<>>
    [] x.t \in {"arr", "obj"} -> TRUE
    [] OTHER -> FALSE

\* the own property k of a mapping is present
HasKey(x, k) == x.t = "obj" /\ \E i \in DOMAIN x.v : x.v[i][1] = k

\* x.k for a value x that is neither null nor undefined
Get(x, k) ==
  IF HasKey(x, k)
  THEN x.v[CHOOSE i \in DOMAIN x.v : x.v[i][1] = k][2]
  ELSE Undefined

\* Object.entries(x) for a value x that is neither null nor undefined
Entries(x) ==
  CASE x.t = "obj" -> x.v
    [] x.t = "arr" -> [i \in DOMAIN x.v |-> <<NumToText(i - 1), x.v[i]>>]
    [] x.t = "str" -> [i \in DOMAIN x.v |-> <<NumToText(i - 1), Str(<<x.v[i]>>)>>]
    [] OTHER -> <<>>

\* delete o.k on a sequence of entries
DeleteKey(es, k) == SelectSeq(es, LAMBDA e : e[1] # k)

\* String(x), the text a template literal gives a scalar
ToText(x) ==
  CASE x.t = "null" -> <<"n","u","l","l">>
    [] x.t = "undefined" -> <<"u","n","d","e","f","i","n","e","d">>
    [] x.t = "bool" -> IF x.v THEN <<"t","r","u","e">> ELSE <<"f","a","l","s","e">>
    [] x.t = "num" -> NumToText(x.v)
    [] x.t = "str" -> x.v

\* the JSON quoting of a text
Quote(s) ==
  <<"\"">>
  \o Flatten([i \in DOMAIN s |->
        IF s[i] \in {"\"", "\\"} THEN <<"\\", s[i]>> ELSE <<s[i]>>])
  \o <<"\"">>

RECURSIVE StringifyAt(_, _)
\* JSON.stringify(x, null, 2) of a value nested at indentation ind
StringifyAt(x, ind) ==
  CASE x.t = "null" -> <<"n","u","l","l">>
    [] x.t = "bool" -> ToText(x)
    [] x.t = "num" -> NumToText(x.v)
    [] x.t = "str" -> Quote(x.v)
    [] x.t = "arr" ->
         IF x.v = <<>> THEN <<"[", "]">>
         ELSE <<"[", "\n">> \o Spaces(ind + 2)
              \o Join([i \in DOMAIN x.v |-> StringifyAt(x.v[i], ind + 2)],
                      <<",", "\n">> \o Spaces(ind + 2))
              \o <<"\n">> \o Spaces(ind) \o <<"]">>
    [] x.t = "obj" ->
         IF x.v = <<>> THEN <<"{", "}">>
         ELSE <<"{", "\n">> \o Spaces(ind + 2)
              \o Join([i \in DOMAIN x.v |->
                         Quote(x.v[i][1]) \o <<":", " ">>
                         \o StringifyAt(x.v[i][2], ind + 2)],
                      <<",", "\n">> \o Spaces(ind + 2))
              \o <<"\n">> \o Spaces(ind) \o <<"}">>

\* JSON.stringify(x, null, 2)
Stringify(x) == StringifyAt(x, 0)

(***************************************************************************)
(* The literal markup of the template strings.                             *)
(***************************************************************************)
SuccessBanner == "<div style=color:#27ae60>Success</div>"
PreOpen == "<pre>"
PreClose == "</pre>"
MetaOpen == "<div style=border-top>"
MetaLabel == "<strong>Metadata:</strong>"
MetaPreOpen == "<pre style=margin-top>"
DivClose == "</div>"
CardOpen == "<div class=result-card>"
ParOpen == "<p>"
ParClose == "</p>"
HeadOpen == "<div style=margin><strong>"
HeadClose == ":</strong></div>"
BlockOpen == "<pre style=background>"
LineOpen == "<p><strong>"
LineMid == ":</strong> "
ErrorOpen == "<p style=color:#e74c3c>Error: "

Markup ==
  {SuccessBanner, PreOpen, PreClose, MetaOpen, MetaLabel, MetaPreOpen,
   DivClose, CardOpen, ParOpen, ParClose, HeadOpen, HeadClose, BlockOpen,
   LineOpen, LineMid, ErrorOpen}

\* what a call gives back: a fragment, or a raised TypeError
Returned(h, c) == [raised |-> FALSE, html |-> h, calls |-> c]
Raised(c) == [raised |-> TRUE, html |-> <<>>, calls |-> c]

\* error.message of the TypeError raised on null
NullMessage == <<"n","u","l","l">>

(***************************************************************************)
(* formatObject                                                            *)
(***************************************************************************)
\* a slip: the test without its "value !== null"
IsNestedValueNullToo(value) == TypeofObject(value)

\* typeof value === "object" && value !== null
IsNestedValue(value) == TypeofObject(value) /\ value.t # "null"

\* one turn of the loop of formatObject: the entry <<key, value>>
FormatEntry(e) ==
  IF IsNestedValue(e[2])
  THEN <<HeadOpen>> \o FormatKey(e[1]) \o <<HeadClose>>
       \o <<BlockOpen>> \o Stringify(e[2]) \o <<PreClose>>
  ELSE <<LineOpen>> \o FormatKey(e[1]) \o <<LineMid>>
       \o ToText(e[2]) \o <<ParClose>>

\* formatObject(obj): Object.entries raises on null and undefined
FormatObject(obj) ==
  IF obj.t \in {"null", "undefined"}
  THEN Raised({"formatObject"})
  ELSE Returned(Flatten([i \in DOMAIN Entries(obj) |->
                           FormatEntry(Entries(obj)[i])]),
                {"formatObject"})

(***************************************************************************)
(* formatData                                                              *)
(***************************************************************************)
\* the forEach of formatData: one card per item, the first raise ends it
FormatCards(items) ==
  IF \E i \in DOMAIN items : FormatObject(items[i]).raised
  THEN Raised({"formatData", "formatObject"})
  ELSE Returned(Flatten([i \in DOMAIN items |->
                           <<CardOpen>> \o FormatObject(items[i]).html
                           \o <<DivClose>>]),
                {"formatData"} \cup
                  (IF items = <<>> THEN {} ELSE {"formatObject"}))

\* formatData(data)
FormatData(data) ==
  IF IsArray(data) THEN FormatCards(data.v)
  ELSE IF TypeofObject(data)
  THEN [FormatObject(data) EXCEPT !.calls = @ \cup {"formatData"}]
  ELSE Returned(<<ParOpen>> \o ToText(data) \o <<ParClose>>, {"formatData"})

(***************************************************************************)
(* formatSuccessResult                                                     *)
(***************************************************************************)
\* a slip: the copy without its "delete dataToShow.success"
DataToShowKeepSuccess(data) == Obj(DeleteKey(Entries(data), K_status))

\* const dataToShow = { ...data }; delete status; delete success
DataToShow(data) ==
  Obj(DeleteKey(DeleteKey(Entries(data), K_status), K_success))

\* a slip: const dataToShow = data, the same object under a second name
DataToShowRefAliased == "data"

\* the object dataToShow names: the fresh one that { ...data } makes
DataToShowRef == "dataToShow"

\* the objects named data and dataToShow after the else branch of
\* formatSuccessResult: the copy, then the two deletes on dataToShow
FallbackHeap(data) ==
  LET copied == [r \in {"data", DataToShowRef} |->
                   IF r = "data" THEN data ELSE Obj(Entries(data))]
      first == [copied EXCEPT ![DataToShowRef] = Obj(DeleteKey(@.v, K_status))]
  IN  [first EXCEPT ![DataToShowRef] = Obj(DeleteKey(@.v, K_success))]

\* the body: data, else result, else every other property
FormatBody(data) ==
  IF Truthy(Get(data, K_data)) THEN FormatData(Get(data, K_data))
  ELSE IF Truthy(Get(data, K_result)) THEN FormatData(Get(data, K_result))
  ELSE Returned(<<PreOpen>> \o Stringify(DataToShow(data)) \o <<PreClose>>, {})

\* the block appended when data.metadata is truthy
FormatMetadata(data) ==
  IF Truthy(Get(data, K_metadata))
  THEN <<MetaOpen, MetaLabel, MetaPreOpen>>
       \o Stringify(Get(data, K_metadata)) \o <<PreClose, DivClose>>
  ELSE <<>>

\* a slip: the banner appended after the body
FormatSuccessResultBannerLast(data) ==
  IF FormatBody(data).raised
  THEN Raised(FormatBody(data).calls \cup {"formatSuccessResult"})
  ELSE Returned(FormatBody(data).html \o <<SuccessBanner>>
                \o FormatMetadata(data),
                FormatBody(data).calls \cup {"formatSuccessResult"})

\* formatSuccessResult(data)
FormatSuccessResult(data) ==
  IF FormatBody(data).raised
  THEN Raised(FormatBody(data).calls \cup {"formatSuccessResult"})
  ELSE Returned(<<SuccessBanner>> \o FormatBody(data).html
                \o FormatMetadata(data),
                FormatBody(data).calls \cup {"formatSuccessResult"})

(***************************************************************************)
(* displayResult and setLoading, on one display region                     *)
(***************************************************************************)
\* a slip: the test without its "|| data.success"
IsSuccessStatusOnly(data) == Get(data, K_status) = Str(K_success)

\* a slip: "success" in data instead of the truthiness of data.success
IsSuccessIfPresent(data) ==
  \/ Get(data, K_status) = Str(K_success)
  \/ HasKey(data, K_success)

\* data.status === "success" || data.success
IsSuccess(data) ==
  \/ Get(data, K_status) = Str(K_success)
  \/ Truthy(Get(data, K_success))

\* the non-error part of displayResult: the fragment for data
Render(data) ==
  IF data.t \in {"null", "undefined"} THEN Raised({})
  ELSE IF IsSuccess(data) THEN FormatSuccessResult(data)
  ELSE Returned(<<PreOpen>> \o Stringify(data) \o <<PreClose>>, {})

\* a slip: the error branch without classList.add("error")
DisplayErrorNoClass(box, message) ==
  [innerHTML |-> <<ErrorOpen>> \o message \o <<ParClose>>,
   classList |-> box.classList \ {"loading", "error"}]

\* displayResult(elementId, message, true)
DisplayError(box, message) ==
  [innerHTML |-> <<ErrorOpen>> \o message \o <<ParClose>>,
   classList |-> (box.classList \ {"loading", "error"}) \cup {"error"}]

\* a slip: innerHTML += instead of innerHTML =
DisplayResultAppend(box, data) ==
  IF Render(data).raised
  THEN [box EXCEPT !.classList = @ \ {"loading", "error"}]
  ELSE [innerHTML |-> box.innerHTML \o Render(data).html,
        classList |-> box.classList \ {"loading", "error"}]

\* a slip: displayResult without its classList.remove
DisplayResultKeepClasses(box, data) ==
  IF Render(data).raised
  THEN box
  ELSE [innerHTML |-> Render(data).html, classList |-> box.classList]

\* displayResult(elementId, data): the region it leaves; the region is
\* written only when the fragment was built without a raise
DisplayResult(box, data) ==
  IF Render(data).raised
  THEN [box EXCEPT !.classList = @ \ {"loading", "error"}]
  ELSE [innerHTML |-> Render(data).html,
        classList |-> box.classList \ {"loading", "error"}]

\* the object handed to displayResult(elementId, data), after the call:
\* only the else branch of formatSuccessResult assigns to an object
InputAfterDisplay(data) ==
  IF /\ data.t = "obj" /\ IsSuccess(data)
     /\ ~Truthy(Get(data, K_data)) /\ ~Truthy(Get(data, K_result))
  THEN FallbackHeap(data)["data"]
  ELSE data

\* a slip: setLoading without classList.add("loading")
SetLoadingNoClass(box) == [innerHTML |-> <<>>, classList |-> box.classList]

\* setLoading(elementId)
SetLoading(box) ==
  [innerHTML |-> <<>>, classList |-> box.classList \cup {"loading"}]

(***************************************************************************)
(* The responses and keys the model draws from.                            *)
(***************************************************************************)
K_city == <<"c","i","t","y">>
K_min_intensity == <<"m","i","n","_","i","n","t","e","n","s","i","t","y">>
K_weird_field == <<"w","e","i","r","d","_","f","i","e","l","d">>
T_ok == <<"o","k">>
T_error == <<"e","r","r","o","r">>

Scalars ==
  {Null, Bool(TRUE), Bool(FALSE), Num(0), Num(12), Str(<<>>), Str(T_ok)}

\* the values held under a key of a body mapping
NestedValues ==
  Scalars \cup
  {Arr(<<>>), Arr(<<Num(1), Null>>), Obj(<<>>),
   Obj(<< <<K_min_intensity, Str(<<"a", "\"">>)>> >>)}

BodyKeys == {K_city, K_min_intensity}

\* the mappings over BodyKeys, in each iteration order
Mappings ==
  {Obj(<<>>)}
  \cup {Obj(<< <<k, x>> >>) : k \in BodyKeys, x \in NestedValues}
  \cup {Obj(<< <<k[1], x>>, <<k[2], y>> >>) :
          k \in {<<K_city, K_min_intensity>>, <<K_min_intensity, K_city>>},
          x \in NestedValues, y \in NestedValues}

\* the elements of a sequence rendered as cards
Elements ==
  {Null, Num(5), Str(<<"a", "b">>), Arr(<<Num(1)>>), Obj(<<>>),
   Obj(<< <<K_city, Str(T_ok)>> >>),
   Obj(<< <<K_min_intensity, Arr(<<>>)>>, <<K_city, Null>> >>)}

Sequences == UNION {[1..n -> Elements] : n \in 0..MaxLen}

Bodies == Scalars \cup Mappings \cup {Arr(a) : a \in Sequences}

\* an envelope from its optional fields (Undefined: the field is absent),
\* in the order status, success, data, result, metadata, weird_field or
\* in the reverse of it
Envelope(st, su, d, r, m, w, reverse) ==
  LET all == << <<K_status, st>>, <<K_success, su>>, <<K_data, d>>,
                <<K_result, r>>, <<K_metadata, m>>, <<K_weird_field, w>> >>
      some == SelectSeq(all, LAMBDA e : e[2] # Undefined)
  IN  Obj(IF reverse
          THEN [i \in DOMAIN some |-> some[Len(some) + 1 - i]]
          ELSE some)

StatusValues == {Undefined, Str(K_success), Str(T_error)}
SuccessValues == {Undefined, Bool(TRUE), Bool(FALSE)}
DataValues ==
  {Undefined, Null, Bool(FALSE), Num(0), Str(<<>>), Num(12),
   Obj(<< <<K_city, Str(T_ok)>> >>), Arr(<<Null>>)}
ResultValues ==
  {Undefined, Null, Str(T_ok), Obj(<< <<K_min_intensity, Num(3)>> >>)}
MetadataValues ==
  {Undefined, Null, Num(0), Obj(<< <<K_city, Num(3)>> >>)}
WeirdValues == {Undefined, Str(<<"x">>)}

\* envelopes varying the discriminants and the choice of fields
ShapedEnvelopes ==
  {Envelope(st, su, d, r, m, w, rev) :
     st \in StatusValues, su \in SuccessValues, d \in DataValues,
     r \in ResultValues, m \in MetadataValues, w \in WeirdValues,
     rev \in BOOLEAN}

\* success envelopes varying the body
BodyEnvelopes ==
  {Envelope(Str(K_success), Undefined, b, Undefined, Undefined, Undefined, FALSE)
     : b \in Bodies}
  \cup
  {Envelope(Undefined, Bool(TRUE), Undefined, b, Undefined, Undefined, FALSE)
     : b \in Bodies}

Envelopes == ShapedEnvelopes \cup BodyEnvelopes

\* what response.json() may resolve to
Responses ==
  Envelopes \cup Scalars
  \cup {Arr(<<>>), Arr(<<Obj(<< <<K_city, Str(T_ok)>> >>)>>)}

\* error.message of a rejected fetch or of a body that is not JSON
Messages ==
  {<<"F","a","i","l","e","d"," ","t","o"," ","f","e","t","c","h">>,
   <<"U","n","e","x","p","e","c","t","e","d"," ","t","o","k","e","n">>}

KeyAlphabet == {"a", "m", "_", "-", "1"}

Keys == UNION {[1..n -> KeyAlphabet] : n \in 0..MaxKeyLen}

\* a display region of the page: two of the regions of script.js
Panels == {"tt-geocode-result", "weather-current-result"}

\* the regions of emotionalHeatmap and fetchMultiple, whose input is a list
HeatmapPanel == "eg-heatmap-result"
FetchMultiplePanel == "fetch-multiple-result"
ListPanels == {HeatmapPanel, FetchMultiplePanel}

Regions == Panels \cup ListPanels

(***************************************************************************)
(* The state machine.                                                      *)
(***************************************************************************)
EmptyBox == [innerHTML |-> <<>>, classList |-> {}]

NoStep ==
  [step |-> "none", panel |-> "none", data |-> Undefined,
   raised |-> FALSE, calls |-> {}, after |-> Undefined, stale |-> FALSE]

(***************************************************************************)
(* The chat panel.  chatHistory is the array of the script; chatMessages   *)
(* is the children of #chat-messages in document order, a message bubble   *)
(* or a typing indicator each; chatPending is the exchanges whose fetch    *)
(* has not settled, each with the position of its user entry in the log.   *)
(* lastChat records the last chat step for the properties to refer to.     *)
(***************************************************************************)
NoChatStep ==
  [step |-> "none", trigger |-> "none", role |-> "none", removed |-> 0,
   calls |-> 0, len0 |-> 0, at |-> 0, data |-> Undefined]

StrongOpen == "<strong>"
StrongClose == "</strong>"
Br == "<br>"

\* the length of the run of characters other than "*" that text has from i on
RECURSIVE PlainRun(_, _)
PlainRun(text, i) ==
  IF i > Len(text) \/ text[i] = "*" THEN 0 ELSE 1 + PlainRun(text, i + 1)

Stars(text, i) == i + 1 <= Len(text) /\ text[i] = "*" /\ text[i + 1] = "*"

\* text.replace(/\*\*([^\*]+)\*\*/g, "<strong>$1</strong>") from i on
RECURSIVE ReplaceBold(_, _)
ReplaceBold(text, i) ==
  IF i > Len(text) THEN <<>>
  ELSE LET n == PlainRun(text, i + 2)
       IN IF Stars(text, i) /\ n >= 1 /\ Stars(text, i + 2 + n)
          THEN <<StrongOpen>> \o SubSeq(text, i + 2, i + 1 + n)
                 \o <<StrongClose>> \o ReplaceBold(text, i + 4 + n)
          ELSE <<text[i]>> \o ReplaceBold(text, i + 1)

\* formatted.replace(/\n/g, "<br>")
ReplaceBreaks(text) ==
  [i \in DOMAIN text |-> IF text[i] = "\n" THEN Br ELSE text[i]]

\* formatMarkdown(text), text a string
FormatMarkdown(text) == ReplaceBreaks(ReplaceBold(text, 1))

\* a bubble of #chat-messages
Bubble(role, content, functionCalled) ==
  [kind |-> "message", role |-> role, label |->
     IF role = "user" THEN <<"Y","o","u">>
     ELSE <<"A","I"," ","A","s","s","i","s","t","a","n","t">>,
   badge |-> IF Truthy(functionCalled) THEN ToText(functionCalled) ELSE <<>>,
   content |-> FormatMarkdown(content.v)]

\* the element showTypingIndicator appends
TypingIndicator ==
  [kind |-> "typing", role |-> "assistant",
   label |-> <<"A","I"," ","A","s","s","i","s","t","a","n","t">>,
   badge |-> <<>>, content |-> <<>>]

\* the welcome message of the DOMContentLoaded handler
WelcomeText ==
  <<"M","a","r","h","a","b","a","!"," ","U+1F44B"," ","I","'","m"," ",
    "y","o","u","r"," ","A","I"," ","a","s","s","i","s","t","a","n","t",
    " ","f","o","r"," ","L","e","b","a","n","o","n"," ","a","n","d"," ",
    "A","U","B",".">>

InitChat ==
  /\ chatHistory = <<[role |-> "assistant", content |-> WelcomeText]>>
  /\ chatMessages = <<Bubble("assistant", Str(WelcomeText), Null)>>
  /\ chatInput = <<>>
  /\ sendDisabled = FALSE
  /\ chatPending = <<>>
  /\ lastChat = NoChatStep

Init ==
  /\ region = [p \in Regions |-> EmptyBox]
  /\ pending = [p \in Regions |-> <<>>]
  /\ last = NoStep
  /\ key = <<>>
  /\ label = <<>>
  /\ InitChat

\* a slip: every handler displays into the geocode region
DisplayTargetGeocode(p) == "tt-geocode-result"

\* the region a handler hands to displayResult: the one it handed to
\* setLoading
DisplayTarget(p) == p

\* the requests in flight after request i settled: the older ones are
\* overtaken
Settled(q, i) ==
  [j \in 1..(Len(q) - 1) |-> IF j < i THEN TRUE ELSE q[j + 1]]

\* a panel handler up to its await: the input is given, setLoading runs
\* and the request is sent
PanelRequest(p) ==
  /\ region' = [region EXCEPT ![p] = SetLoading(@)]
  /\ pending' = [pending EXCEPT ![p] = Append(@, FALSE)]
  /\ last' = [NoStep EXCEPT !.step = "request", !.panel = p,
                            !.calls = {"setLoading"}]
  /\ UNCHANGED <<keyVars, chatVars>>

\* a slip: a response that a later request overtook is dropped
PanelResolveLatestOnly(p, data) ==
  \E i \in DOMAIN pending[p] :
    /\ region' = [region EXCEPT ![DisplayTarget(p)] =
         IF pending[p][i] THEN @
         ELSE IF Render(data).raised
         THEN DisplayError(DisplayResult(@, data), NullMessage)
         ELSE DisplayResult(@, data)]
    /\ pending' = [pending EXCEPT ![p] = Settled(@, i)]
    /\ last' = [step |-> "resolve", panel |-> p, data |-> data,
                raised |-> Render(data).raised,
                calls |-> Render(data).calls \cup {"displayResult"},
                after |-> InputAfterDisplay(data),
                stale |-> pending[p][i]]
    /\ UNCHANGED <<keyVars, chatVars>>

\* the try block after the await of one of the panel's requests, for a body
\* that parsed to data; a raise out of displayResult lands in the catch block
PanelResolve(p, data) ==
  \E i \in DOMAIN pending[p] :
    /\ region' = [region EXCEPT ![DisplayTarget(p)] =
         IF Render(data).raised
         THEN DisplayError(DisplayResult(@, data), NullMessage)
         ELSE DisplayResult(@, data)]
    /\ pending' = [pending EXCEPT ![p] = Settled(@, i)]
    /\ last' = [step |-> "resolve", panel |-> p, data |-> data,
                raised |-> Render(data).raised,
                calls |-> Render(data).calls \cup {"displayResult"},
                after |-> InputAfterDisplay(data),
                stale |-> pending[p][i]]
    /\ UNCHANGED <<keyVars, chatVars>>

\* the catch block for a fetch that rejected or a body that is not JSON
PanelReject(p, message) ==
  \E i \in DOMAIN pending[p] :
    /\ region' = [region EXCEPT ![DisplayTarget(p)] = DisplayError(@, message)]
    /\ pending' = [pending EXCEPT ![p] = Settled(@, i)]
    /\ last' = [step |-> "reject", panel |-> p, data |-> Str(message),
                raised |-> FALSE, calls |-> {"displayResult"},
                after |-> Str(message), stale |-> pending[p][i]]
    /\ UNCHANGED <<keyVars, chatVars>>

\* the geocode panel used with one request at a time
GeocodePanel == "tt-geocode-result"

Request == pending[GeocodePanel] = <<>> /\ PanelRequest(GeocodePanel)

Resolve == \E data \in Responses : PanelResolve(GeocodePanel, data)

Reject == \E message \in Messages : PanelReject(GeocodePanel, message)

Next == Request \/ Resolve \/ Reject

Spec == Init /\ [][Next]_vars

\* the key humanization applied to a key alone
InitKey ==
  /\ region = [p \in Panels |-> EmptyBox]
  /\ pending = [p \in Panels |-> <<>>]
  /\ last = NoStep
  /\ key \in Keys
  /\ label = <<>>
  /\ InitChat

Humanize ==
  /\ label = <<>>
  /\ label' = <<FormatKey(key)>>
  /\ UNCHANGED <<panelVars, key, chatVars>>

NextKey == Humanize

SpecKey == InitKey /\ [][NextKey]_vars

(***************************************************************************)
(* Two panels, each with requests that may overlap.                        *)
(***************************************************************************)
\* what the model lets response.json() resolve to when requests overlap
PanelResponses ==
  {Null,
   Envelope(Str(K_success), Undefined, Obj(<< <<K_city, Str(T_ok)>> >>),
            Undefined, Undefined, Undefined, FALSE),
   Envelope(Str(K_success), Bool(TRUE), Num(0), Undefined, Undefined,
            Str(<<"x">>), FALSE),
   Envelope(Str(T_error), Bool(FALSE), Undefined, Undefined, Undefined,
            Str(<<"x">>), FALSE)}

PanelMessages ==
  {<<"F","a","i","l","e","d"," ","t","o"," ","f","e","t","c","h">>}

RequestOn(p) == Len(pending[p]) < MaxPending /\ PanelRequest(p)

ResolveOn(p) == \E data \in PanelResponses : PanelResolve(p, data)

RejectOn(p) == \E message \in PanelMessages : PanelReject(p, message)

NextPanels == \E p \in Panels : RequestOn(p) \/ ResolveOn(p) \/ RejectOn(p)

SpecPanels == Init /\ [][NextPanels]_vars

(***************************************************************************)
(* What the claims speak of.                                               *)
(***************************************************************************)
\* the last step was the non-error display of a parsed response
Displayed == last.step = "resolve"

\* the fragment in the region of the last step
Shown == region[last.panel].innerHTML

\* the class list of the region of the last step
ShownClasses == region[last.panel].classList

\* the number of times piece occurs in fragment h
Count(h, piece) == Cardinality({i \in DOMAIN h : h[i] = piece})

StartsWith(h, prefix) ==
  Len(prefix) <= Len(h) /\ SubSeq(h, 1, Len(prefix)) = prefix

EndsWith(h, suffix) ==
  Len(suffix) <= Len(h)
  /\ SubSeq(h, Len(h) - Len(suffix) + 1, Len(h)) = suffix

\* the envelope is a mapping
IsMapping(x) == x.t = "obj"

\* the value under key k of envelope x, and whether x has the key
Field(x, k) == x.v[CHOOSE i \in DOMAIN x.v : x.v[i][1] = k][2]
HasField(x, k) == \E i \in DOMAIN x.v : x.v[i][1] = k

\* the mapping x without the keys in ks, the other entries in order
Without(x, ks) == Obj(SelectSeq(x.v, LAMBDA e : e[1] \notin ks))

\* the value is false, 0, the empty string or null
IsFalsy(x) == x \in {Null, Bool(FALSE), Num(0), Str(<<>>)}

\* the envelope is marked a success: status "success", or success truthy
MarkedSuccess(x) ==
  \/ (HasField(x, K_status) /\ Field(x, K_status) = Str(K_success))
  \/ (HasField(x, K_success) /\ ~IsFalsy(Field(x, K_success)))

\* the metadata block for value m
MetadataBlock(m) ==
  <<MetaOpen, MetaLabel, MetaPreOpen>> \o Stringify(m) \o <<PreClose, DivClose>>

(***************************************************************************)
(* C1: every JSON value handed to displayResult on the non-error path is   *)
(* rendered without a raise.  The code raises on null and on a sequence    *)
(* that holds null.                                                        *)
(***************************************************************************)
C1_RenderingIsTotal == Displayed => ~last.raised

(***************************************************************************)
(* C2: a success envelope with both a data and a result field is rendered  *)
(* from data, whatever the value of data, and result contributes nothing:  *)
(* the fragment is that of the envelope without its result field, and its  *)
(* body is the rendering of data when data can be rendered.  The code      *)
(* tests the truthiness of data, not its presence.                         *)
(***************************************************************************)
C2_DataTakesPrecedence ==
  (/\ Displayed /\ ~last.raised /\ IsMapping(last.data)
   /\ MarkedSuccess(last.data)
   /\ HasField(last.data, K_data) /\ HasField(last.data, K_result))
  => /\ Shown = Render(Without(last.data, {K_result})).html
     /\ ~FormatData(Field(last.data, K_data)).raised
          => StartsWith(Shown, <<SuccessBanner>>
                               \o FormatData(Field(last.data, K_data)).html)

(***************************************************************************)
(* C3: a success envelope with a metadata field, rendered without a raise, *)
(* ends with the block labelled "Metadata:" that holds the metadata, after *)
(* the body, wherever the key sits and whichever body path was taken.  The *)
(* code tests the truthiness of metadata, not its presence.                *)
(***************************************************************************)
C3_MetadataBlockRendered ==
  (/\ Displayed /\ ~last.raised /\ IsMapping(last.data)
   /\ MarkedSuccess(last.data) /\ HasField(last.data, K_metadata))
  => /\ EndsWith(Shown, MetadataBlock(Field(last.data, K_metadata)))
     /\ Count(Shown, MetaLabel) = 1
     /\ Len(Shown) > Len(MetadataBlock(Field(last.data, K_metadata))) + 1

(***************************************************************************)
(* C4: an envelope whose status is not "success" and whose success is      *)
(* falsy or absent is shown whole as indented JSON in one <pre> block:     *)
(* no success banner, no humanized line or heading, no card, no metadata   *)
(* block.                                                                  *)
(***************************************************************************)
NotMarkedSuccess(x) ==
  /\ IsMapping(x)
  /\ (HasField(x, K_status) => Field(x, K_status) # Str(K_success))
  /\ (HasField(x, K_success) => IsFalsy(Field(x, K_success)))

C4_NonSuccessIsRawJson ==
  (Displayed /\ NotMarkedSuccess(last.data))
  => /\ ~last.raised
     /\ Shown = <<PreOpen>> \o Stringify(last.data) \o <<PreClose>>
     /\ Range(Shown) \cap Markup = {PreOpen, PreClose}
     /\ Count(Shown, PreOpen) = 1
     /\ ShownClasses = {}

C4_Witness ==
  /\ Displayed /\ NotMarkedSuccess(last.data)
  /\ HasField(last.data, K_status) /\ HasField(last.data, K_success)
  /\ HasField(last.data, K_data) /\ Field(last.data, K_data).t = "obj"
  /\ HasField(last.data, K_result)
  /\ HasField(last.data, K_metadata) /\ Field(last.data, K_metadata).t = "obj"
  /\ Shown = <<PreOpen>> \o Stringify(last.data) \o <<PreClose>>

(***************************************************************************)
(* C5 as claimed: an envelope marked a failure (status a string other than *)
(* "success", or success false) never reaches formatSuccessResult and      *)
(* shows no success banner, conflicting discriminants included.            *)
(***************************************************************************)
MarkedFailure(x) ==
  /\ IsMapping(x)
  /\ \/ (HasField(x, K_status) /\ Field(x, K_status).t = "str"
         /\ Field(x, K_status) # Str(K_success))
     \/ (HasField(x, K_success) /\ Field(x, K_success) = Bool(FALSE))

C5_FailureNeverFormattedAsSuccess ==
  (Displayed /\ MarkedFailure(last.data))
  => /\ "formatSuccessResult" \notin last.calls
     /\ SuccessBanner \notin Range(Shown)

(***************************************************************************)
(* C5 amended: an envelope reaches formatSuccessResult exactly when its    *)
(* status is "success" or its success is truthy; an envelope marked a      *)
(* failure by both discriminants, or by one with the other absent or       *)
(* falsy, bypasses it and shows no success banner.                         *)
(***************************************************************************)
C5_SuccessPathIffMarkedSuccess ==
  (Displayed /\ IsMapping(last.data))
  => /\ ("formatSuccessResult" \in last.calls) <=> MarkedSuccess(last.data)
     /\ ~MarkedSuccess(last.data) => SuccessBanner \notin Range(Shown)
     /\ (MarkedSuccess(last.data) /\ ~last.raised)
          => SuccessBanner \in Range(Shown)

C5_Witness ==
  /\ Displayed /\ MarkedFailure(last.data)
  /\ HasField(last.data, K_status) /\ HasField(last.data, K_success)
  /\ HasField(last.data, K_data)
  /\ "formatSuccessResult" \notin last.calls
  /\ SuccessBanner \notin Range(Shown)

(***************************************************************************)
(* C6: a success envelope whose data and result are both absent or falsy   *)
(* has as its body one <pre> block with the indented JSON of every field   *)
(* but status and success, in the envelope's order.                        *)
(***************************************************************************)
NoUsable(x, k) == HasField(x, k) => IsFalsy(Field(x, k))

C6_FallbackBody ==
  (/\ Displayed /\ IsMapping(last.data) /\ MarkedSuccess(last.data)
   /\ NoUsable(last.data, K_data) /\ NoUsable(last.data, K_result))
  => /\ ~last.raised
     /\ StartsWith(Shown,
          <<SuccessBanner, PreOpen>>
          \o Stringify(Without(last.data, {K_status, K_success}))
          \o <<PreClose>>)
     /\ Count(Shown, PreOpen) = 1
     /\ Count(Shown, LineOpen) + Count(Shown, HeadOpen)
          + Count(Shown, CardOpen) = 0

C6_Witness ==
  /\ Displayed /\ IsMapping(last.data) /\ MarkedSuccess(last.data)
  /\ HasField(last.data, K_status) /\ HasField(last.data, K_success)
  /\ HasField(last.data, K_data) /\ Field(last.data, K_data) = Num(0)
  /\ HasField(last.data, K_result) /\ Field(last.data, K_result) = Null
  /\ HasField(last.data, K_weird_field) /\ HasField(last.data, K_metadata)
  /\ StartsWith(Shown,
       <<SuccessBanner, PreOpen>>
       \o Stringify(Without(last.data, {K_status, K_success}))
       \o <<PreClose>>)

(***************************************************************************)
(* C7: formatObject renders the entry of every key of a mapping as a       *)
(* heading (the humanized key) and a block of verbatim indented JSON       *)
(* exactly when the value is a mapping or a sequence, and otherwise        *)
(* (string, number, boolean, null) as the line "Humanized Key: value",     *)
(* null as the text null; the keys inside a nested value stay as they are. *)
(***************************************************************************)
\* the value the code hands to formatData, if any
UsableField(x, k) == HasField(x, k) /\ ~IsFalsy(Field(x, k))

HandedToFormatData(x) ==
  IF UsableField(x, K_data) THEN Field(x, K_data) ELSE Field(x, K_result)

\* the labels expected of the keys of BodyKeys
ExpectedLabel(k) ==
  IF k = K_city THEN <<"C","i","t","y">>
  ELSE <<"M","i","n"," ","I","n","t","e","n","s","i","t","y">>

ExpectedText(x) == IF x = Null THEN <<"n","u","l","l">> ELSE ToText(x)

ExpectedLine(e) ==
  <<LineOpen>> \o ExpectedLabel(e[1]) \o <<LineMid>> \o ExpectedText(e[2])
  \o <<ParClose>>

ExpectedEntry(e) ==
  IF e[2].t \in {"arr", "obj"}
  THEN <<HeadOpen>> \o ExpectedLabel(e[1]) \o <<HeadClose, BlockOpen>>
       \o Stringify(e[2]) \o <<PreClose>>
  ELSE ExpectedLine(e)

\* fragment h holds the text sub
Contains(h, sub) ==
  \E i \in 1..(Len(h) + 1 - Len(sub)) : SubSeq(h, i, i + Len(sub) - 1) = sub

\* the success envelope's body is a mapping over BodyKeys
BodyIsMapping(x) ==
  /\ IsMapping(x) /\ MarkedSuccess(x)
  /\ UsableField(x, K_data) \/ UsableField(x, K_result)
  /\ HandedToFormatData(x).t = "obj"

C7_FormatObjectEntries ==
  (Displayed /\ BodyIsMapping(last.data))
  => LET m == HandedToFormatData(last.data).v
     IN  /\ ~last.raised
         /\ StartsWith(Shown,
              <<SuccessBanner>>
              \o Flatten([i \in DOMAIN m |-> ExpectedEntry(m[i])]))
         /\ Count(Shown, HeadOpen)
              = Cardinality({i \in DOMAIN m : m[i][2].t \in {"arr", "obj"}})
         /\ Count(Shown, LineOpen)
              = Cardinality({i \in DOMAIN m : m[i][2].t \notin {"arr", "obj"}})
         /\ \A i \in DOMAIN m :
              (m[i][2].t = "obj" /\ m[i][2].v # <<>>)
              => Contains(Shown, <<" ", " ">> \o Quote(m[i][2].v[1][1]))

C7_Witness ==
  /\ Displayed /\ BodyIsMapping(last.data)
  /\ HandedToFormatData(last.data) =
       Obj(<< <<K_city, Null>>,
              <<K_min_intensity,
                Obj(<< <<K_min_intensity, Str(<<"a", "\"">>)>> >>)>> >>)
  /\ Contains(Shown, ExpectedLine(<<K_city, Null>>))
  /\ Count(Shown, HeadOpen) = 1

(***************************************************************************)
(* C8: a sequence s handed to formatData gives len(s) result cards, the    *)
(* i-th holding the rendering of the i-th element, and no card and no      *)
(* other text for the empty sequence.  The code raises when s holds null   *)
(* (C1) and the region then shows the error message and no card.           *)
(***************************************************************************)
BodyIsSequence(x) ==
  /\ IsMapping(x) /\ MarkedSuccess(x)
  /\ UsableField(x, K_data) \/ UsableField(x, K_result)
  /\ HandedToFormatData(x).t = "arr"

C8_OneCardPerElement ==
  (Displayed /\ BodyIsSequence(last.data))
  => /\ Count(Shown, CardOpen) = Len(HandedToFormatData(last.data).v)
     /\ (HandedToFormatData(last.data).v = <<>>
           /\ ~UsableField(last.data, K_metadata))
          => Shown = <<SuccessBanner>>

\* the part of C8 the code keeps: without a null element, one card each
C8_CardsWhenNoNullElement ==
  (/\ Displayed /\ BodyIsSequence(last.data)
   /\ Null \notin Range(HandedToFormatData(last.data).v))
  => LET s == HandedToFormatData(last.data).v
     IN  /\ ~last.raised
         /\ Count(Shown, CardOpen) = Len(s)
         /\ StartsWith(Shown,
              <<SuccessBanner>>
              \o Flatten([i \in DOMAIN s |->
                   <<CardOpen>> \o FormatObject(s[i]).html \o <<DivClose>>]))

(***************************************************************************)
(* C10: a success envelope whose body (data, else result) is a mapping of  *)
(* scalars shows the success banner, then exactly one line                 *)
(* "Humanized Key: value" per key in the mapping's order, then only the    *)
(* metadata block if there is usable metadata; the banner is the first     *)
(* piece of every fragment of the success path.                            *)
(***************************************************************************)
ClaimedBody(x) ==
  IF HasField(x, K_data) THEN Field(x, K_data) ELSE Field(x, K_result)

IsScalar(x) == x.t \in {"null", "bool", "num", "str"}

BodyIsScalarMapping(x) ==
  /\ IsMapping(x) /\ MarkedSuccess(x)
  /\ HasField(x, K_data) \/ HasField(x, K_result)
  /\ ClaimedBody(x).t = "obj"
  /\ \A i \in DOMAIN ClaimedBody(x).v : IsScalar(ClaimedBody(x).v[i][2])

C10_ScalarMappingLines ==
  /\ (Displayed /\ BodyIsScalarMapping(last.data))
     => LET m == ClaimedBody(last.data).v
        IN  /\ ~last.raised
            /\ Shown = <<SuccessBanner>>
                 \o Flatten([i \in DOMAIN m |-> ExpectedLine(m[i])])
                 \o (IF UsableField(last.data, K_metadata)
                     THEN MetadataBlock(Field(last.data, K_metadata))
                     ELSE <<>>)
            /\ Count(Shown, LineOpen) = Len(m)
  /\ (Displayed /\ "formatSuccessResult" \in last.calls /\ ~last.raised)
     => /\ Shown[1] = SuccessBanner
        /\ Count(Shown, SuccessBanner) = 1

C10_Witness ==
  /\ Displayed /\ BodyIsScalarMapping(last.data)
  /\ ClaimedBody(last.data) =
       Obj(<< <<K_city, Str(T_ok)>>, <<K_min_intensity, Num(12)>> >>)
  /\ Shown = <<SuccessBanner,
               LineOpen, "C","i","t","y", LineMid, "o","k", ParClose,
               LineOpen, "M","i","n"," ","I","n","t","e","n","s","i","t","y",
               LineMid, "1","2", ParClose>>

(***************************************************************************)
(* C9 as claimed: in the label every underscore is a space and every other *)
(* character is the key's, but for the first letter of each word, which is *)
(* upper-cased; a key without an underscore differs from its label in its  *)
(* first letter at most.                                                   *)
(***************************************************************************)
Humanized == label # <<>>

IsLetterOrDigit(c) ==
  c \in Range(LowerCase) \cup Range(UpperCase) \cup Range(Digits)

\* the upper case of the letters of KeyAlphabet
ExpectedUpper(c) == IF c = "a" THEN "A" ELSE IF c = "m" THEN "M" ELSE c

Changed(k, l) == {i \in DOMAIN k : l[i] # k[i]}

IsLetter(c) == c \in Range(LowerCase) \cup Range(UpperCase)

\* the positions of the first letter of k: one, or none
FirstLetter(k) ==
  {i \in DOMAIN k :
     IsLetter(k[i]) /\ \A j \in 1..(i - 1) : ~IsLetter(k[j])}

C9_OnlyFirstLetterChanges ==
  Humanized
  => /\ Len(label[1]) = Len(key)
     /\ \A i \in DOMAIN key : key[i] = "_" => label[1][i] = " "
     /\ "_" \notin Range(key)
          => Changed(key, label[1]) \subseteq FirstLetter(key)

(***************************************************************************)
(* C9 amended: in the label every underscore is a space, the first         *)
(* character of every maximal run of ASCII letters and digits is           *)
(* upper-cased and every other character is the key's; a key of letters    *)
(* and digits alone differs from its label in its first character at most. *)
(***************************************************************************)
StartsRun(k, i) ==
  IsLetterOrDigit(k[i]) /\ (i = 1 \/ ~IsLetterOrDigit(k[i - 1]))

C9_FirstOfEachRunUpperCased ==
  Humanized
  => /\ Len(label[1]) = Len(key)
     /\ \A i \in DOMAIN key :
          label[1][i] = (IF key[i] = "_" THEN " "
                         ELSE IF StartsRun(key, i) THEN ExpectedUpper(key[i])
                         ELSE key[i])
     /\ (\A i \in DOMAIN key : IsLetterOrDigit(key[i]))
          => Changed(key, label[1]) \subseteq {1}

C9_Witness ==
  /\ Humanized
  /\ key = <<"a", "-", "m">>
  /\ label[1] = <<"A", "-", "M">>

(***************************************************************************)
(* The chat handlers                                                       *)
(***************************************************************************)
K_error == <<"e","r","r","o","r">>
K_response == <<"r","e","s","p","o","n","s","e">>
K_function_called ==
  <<"f","u","n","c","t","i","o","n","_","c","a","l","l","e","d">>

ErrorPrefix == <<"E","r","r","o","r",":"," ">>

\* error.message of the TypeError of data.error on null
NullDataMessage == <<"d","a","t","a"," ","i","s"," ","n","u","l","l">>

\* error.message of the TypeError of text.replace on what is not a string
NoReplaceMessage ==
  <<"t","e","x","t",".","r","e","p","l","a","c","e"," ","i","s"," ",
    "n","o","t"," ","a"," ","f","u","n","c","t","i","o","n">>

WhiteSpace == {" ", "\n", "\t"}

RECURSIVE TrimStart(_)
TrimStart(text) ==
  IF text # <<>> /\ Head(text) \in WhiteSpace THEN TrimStart(Tail(text))
  ELSE text

RECURSIVE TrimEnd(_)
TrimEnd(text) ==
  IF text # <<>> /\ text[Len(text)] \in WhiteSpace
  THEN TrimEnd(SubSeq(text, 1, Len(text) - 1))
  ELSE text

\* input.value.trim()
Trim(text) == TrimEnd(TrimStart(text))

\* chatHistory.push({ role, content })
Push(log, role, content) == Append(log, [role |-> role, content |-> content])

\* removeTypingIndicator(): the children without the first #typing-indicator
WithoutTypingIndicator(children) ==
  IF \E i \in DOMAIN children : children[i].kind = "typing"
  THEN LET i == CHOOSE i \in DOMAIN children :
                  /\ children[i].kind = "typing"
                  /\ \A j \in 1..(i - 1) : children[j].kind # "typing"
       IN SubSeq(children, 1, i - 1) \o SubSeq(children, i + 1, Len(children))
  ELSE children

TypingCount(children) ==
  Cardinality({i \in DOMAIN children : children[i].kind = "typing"})

\* the exchanges in flight without the i-th
Dropped(q, i) == SubSeq(q, 1, i - 1) \o SubSeq(q, i + 1, Len(q))

\* the input texts a user types and the questions of the suggestion buttons
ChatInputs == {<<" ">>, <<"h","i">>, <<" ","a","\n">>}
Suggestions == {<<"h","i">>}

\* what response.json() of /api/chat resolves with
ChatResponses ==
  {Null,
   Obj(<<>>),
   Obj(<< <<K_error, Str(<<"x">>)>> >>),
   Obj(<< <<K_error, Str(<<>>)>>, <<K_response, Str(T_ok)>> >>),
   Obj(<< <<K_response, Str(<<"*","*","b","*","*","\n">>)>>,
          <<K_function_called, Str(<<"f">>)>> >>),
   Obj(<< <<K_response, Num(5)>> >>),
   Str(T_ok)}

\* the keystrokes that leave text in #chat-input
TypeInput(text) ==
  /\ chatInput # text
  /\ chatInput' = text
  /\ lastChat' = [NoChatStep EXCEPT !.step = "type", !.len0 = Len(chatHistory)]
  /\ UNCHANGED <<panelVars, keyVars, chatHistory, chatMessages, sendDisabled,
                 chatPending>>

\* sendChatMessage() up to its fetch, the input holding text
SendChatMessage(trigger, text) ==
  LET message == Trim(text)
  IN IF message = <<>>
     THEN /\ chatInput' = text
          /\ lastChat' = [NoChatStep EXCEPT !.step = "empty",
                            !.trigger = trigger, !.len0 = Len(chatHistory),
                            !.data = Str(text)]
          /\ UNCHANGED <<chatHistory, chatMessages, sendDisabled, chatPending>>
     ELSE /\ Len(chatHistory) + Len(chatPending) + 2 <= MaxChatLog
          /\ chatHistory' = Push(chatHistory, "user", message)
          /\ chatMessages' =
               chatMessages \o <<Bubble("user", Str(message), Null),
                                 TypingIndicator>>
          /\ chatInput' = <<>>
          /\ sendDisabled' = TRUE
          /\ chatPending' =
               Append(chatPending,
                      [message |-> message, at |-> Len(chatHistory) + 1])
          /\ lastChat' = [NoChatStep EXCEPT !.step = "send",
                            !.trigger = trigger, !.role = "user",
                            !.calls = 1, !.len0 = Len(chatHistory),
                            !.at = Len(chatHistory) + 1,
                            !.data = Str(text)]

\* a click on the send button, which a disabled button does not deliver
ClickSend ==
  /\ ~sendDisabled
  /\ SendChatMessage("button", chatInput)
  /\ UNCHANGED <<panelVars, keyVars>>

\* the keydown handler, Enter without Shift
PressEnter ==
  /\ SendChatMessage("enter", chatInput)
  /\ UNCHANGED <<panelVars, keyVars>>

\* askSuggestion(question)
AskSuggestion(question) ==
  /\ SendChatMessage("suggestion", question)
  /\ UNCHANGED <<panelVars, keyVars>>

\* the try block of sendChatMessage after response.json() gave data
ReplyTo(data) ==
  IF data.t = "null"
  THEN [raised |-> TRUE, message |-> NullDataMessage, calls |-> 0]
  ELSE IF Truthy(Get(data, K_error))
  THEN [raised |-> FALSE, role |-> "system", calls |-> 1,
        content |-> Str(ErrorPrefix \o ToText(Get(data, K_error))),
        functionCalled |-> Null]
  ELSE IF Get(data, K_response).t # "str"
  THEN [raised |-> TRUE, message |-> NoReplaceMessage, calls |-> 1]
  ELSE [raised |-> FALSE, role |-> "assistant", calls |-> 1,
        content |-> Get(data, K_response),
        functionCalled |-> Get(data, K_function_called)]

\* the fetch of the i-th exchange in flight resolved and its body parsed
ChatResolve(i, data) ==
  LET reply == ReplyTo(data)
      shown == WithoutTypingIndicator(chatMessages)
  IN /\ i \in DOMAIN chatPending
     /\ IF reply.raised
        THEN /\ chatMessages' =
                  Append(WithoutTypingIndicator(shown),
                         Bubble("system", Str(ErrorPrefix \o reply.message),
                                Null))
             /\ chatHistory' =
                  Push(chatHistory, "system", ErrorPrefix \o reply.message)
             /\ lastChat' =
                  [step |-> "resolve", trigger |-> "none", role |-> "system",
                   removed |-> TypingCount(chatMessages)
                                 - TypingCount(WithoutTypingIndicator(shown)),
                   calls |-> reply.calls + 1, len0 |-> Len(chatHistory),
                   at |-> chatPending[i].at, data |-> data]
        ELSE /\ chatMessages' =
                  Append(shown, Bubble(reply.role, reply.content,
                                       reply.functionCalled))
             /\ chatHistory' = Push(chatHistory, reply.role, reply.content.v)
             /\ lastChat' =
                  [step |-> "resolve", trigger |-> "none",
                   role |-> reply.role,
                   removed |-> TypingCount(chatMessages) - TypingCount(shown),
                   calls |-> reply.calls, len0 |-> Len(chatHistory),
                   at |-> chatPending[i].at, data |-> data]
     /\ sendDisabled' = FALSE
     /\ chatPending' = Dropped(chatPending, i)
     /\ UNCHANGED <<panelVars, keyVars, chatInput>>

\* a slip: the catch branch without the finally block
ChatRejectDisabledKept(i, message) ==
  /\ i \in DOMAIN chatPending
  /\ chatMessages' =
       Append(WithoutTypingIndicator(chatMessages),
              Bubble("system", Str(ErrorPrefix \o message), Null))
  /\ chatHistory' = Push(chatHistory, "system", ErrorPrefix \o message)
  /\ lastChat' =
       [step |-> "reject", trigger |-> "none", role |-> "system",
        removed |-> TypingCount(chatMessages)
                      - TypingCount(WithoutTypingIndicator(chatMessages)),
        calls |-> 1, len0 |-> Len(chatHistory), at |-> chatPending[i].at,
        data |-> Str(message)]
  /\ chatPending' = Dropped(chatPending, i)
  /\ UNCHANGED <<panelVars, keyVars, chatInput, sendDisabled>>

\* the fetch of the i-th exchange in flight, or response.json(), rejected
ChatReject(i, message) ==
  /\ i \in DOMAIN chatPending
  /\ chatMessages' =
       Append(WithoutTypingIndicator(chatMessages),
              Bubble("system", Str(ErrorPrefix \o message), Null))
  /\ chatHistory' = Push(chatHistory, "system", ErrorPrefix \o message)
  /\ lastChat' =
       [step |-> "reject", trigger |-> "none", role |-> "system",
        removed |-> TypingCount(chatMessages)
                      - TypingCount(WithoutTypingIndicator(chatMessages)),
        calls |-> 1, len0 |-> Len(chatHistory), at |-> chatPending[i].at,
        data |-> Str(message)]
  /\ sendDisabled' = FALSE
  /\ chatPending' = Dropped(chatPending, i)
  /\ UNCHANGED <<panelVars, keyVars, chatInput>>

NextChat ==
  \/ \E text \in ChatInputs \cup {<<>>} : TypeInput(text)
  \/ ClickSend
  \/ PressEnter
  \/ \E question \in Suggestions : AskSuggestion(question)
  \/ \E i \in 1..MaxChatLog, data \in ChatResponses : ChatResolve(i, data)
  \/ \E i \in 1..MaxChatLog, message \in PanelMessages : ChatReject(i, message)

SpecChat == Init /\ [][NextChat]_vars

(***************************************************************************)
(* The validation of the inputs.  A panel handler reads its field when it  *)
(* is invoked and never writes it, so the text of the field is an input    *)
(* of the step.                                                            *)
(***************************************************************************)
RECURSIVE Split(_, _)
\* text.split(sep)
Split(text, sep) ==
  IF \A i \in DOMAIN text : text[i] # sep THEN <<text>>
  ELSE LET i == CHOOSE i \in DOMAIN text :
                  text[i] = sep /\ \A j \in 1..(i - 1) : text[j] # sep
       IN <<SubSeq(text, 1, i - 1)>>
            \o Split(SubSeq(text, i + 1, Len(text)), sep)

\* text.split(sep).map((l) => l.trim()).filter((l) => l)
ParsedList(text, sep) ==
  SelectSeq([i \in DOMAIN Split(text, sep) |-> Trim(Split(text, sep)[i])],
            LAMBDA l : l # <<>>)

\* a slip: the test of the text as typed in place of the parsed list
MissingInputRawOnly(p, text) == text = <<>>

\* the test before the alert: !location, locations.length === 0,
\* urls.length === 0
MissingInput(p, text) ==
  CASE p = HeatmapPanel -> Len(ParsedList(text, ",")) = 0
    [] p = FetchMultiplePanel -> Len(ParsedList(text, "\n")) = 0
    [] OTHER -> text = <<>>

\* the handler of panel p invoked, its field holding text
Invoke(p, text) ==
  IF MissingInput(p, text)
  THEN /\ last' = [NoStep EXCEPT !.step = "alert", !.panel = p,
                     !.data = Str(text), !.calls = {"alert"}]
       /\ UNCHANGED <<region, pending, keyVars, chatVars>>
  ELSE /\ pending[p] = <<>>
       /\ region' = [region EXCEPT ![p] = SetLoading(@)]
       /\ pending' = [pending EXCEPT ![p] = Append(@, FALSE)]
       /\ last' = [NoStep EXCEPT !.step = "request", !.panel = p,
                     !.data = Str(text), !.calls = {"setLoading", "fetch"}]
       /\ UNCHANGED <<keyVars, chatVars>>

InputPanels == {GeocodePanel} \cup ListPanels

\* what a user leaves in the field of a panel
FieldInputs ==
  {<<>>, <<" ">>, <<",">>, <<" ", ",", "\n">>, <<"a">>, <<"a", ",", " ">>,
   <<"\n", "a">>}

InputResponses ==
  {Envelope(Str(K_success), Undefined, Obj(<< <<K_city, Str(T_ok)>> >>),
            Undefined, Undefined, Undefined, FALSE)}

InputChatResponses == {Obj(<< <<K_response, Str(T_ok)>> >>)}

\* one session works the panels or the chat, which keeps the runs apart
PanelsUntouched == last = NoStep
ChatUntouched == lastChat = NoChatStep

InvokeOn(p) == ChatUntouched /\ \E text \in FieldInputs : Invoke(p, text)

ResolveInput(p) ==
  ChatUntouched /\ \E data \in InputResponses : PanelResolve(p, data)

RejectInput(p) ==
  ChatUntouched /\ \E message \in PanelMessages : PanelReject(p, message)

TypeChat ==
  PanelsUntouched /\ \E text \in ChatInputs \cup {<<>>} : TypeInput(text)

ClickChat == PanelsUntouched /\ ClickSend

EnterChat == PanelsUntouched /\ PressEnter

SuggestChat ==
  PanelsUntouched /\ \E question \in Suggestions : AskSuggestion(question)

ResolveChat ==
  /\ PanelsUntouched
  /\ \E i \in 1..MaxChatLog, data \in InputChatResponses : ChatResolve(i, data)

NextInputs ==
  \/ \E p \in InputPanels : InvokeOn(p) \/ ResolveInput(p) \/ RejectInput(p)
  \/ TypeChat
  \/ ClickChat
  \/ EnterChat
  \/ SuggestChat
  \/ ResolveChat

SpecInputs == Init /\ [][NextInputs]_vars

(***************************************************************************)
(* C11: rendering leaves the envelope as it was: after displayResult the   *)
(* object handed to it has the same keys and values, status and success    *)
(* on the fallback path included, and its keys are not the humanized ones. *)
(***************************************************************************)
C11_InputNotMutated == Displayed => last.after = last.data

C11_Witness ==
  /\ Displayed /\ IsMapping(last.data) /\ MarkedSuccess(last.data)
  /\ NoUsable(last.data, K_data) /\ NoUsable(last.data, K_result)
  /\ HasField(last.data, K_status) /\ HasField(last.data, K_success)
  /\ HasField(last.data, K_weird_field)
  /\ ~Contains(Shown, Quote(K_status))
  /\ last.after = last.data

(***************************************************************************)
(* C12: after a response or a failure was displayed, the region holds the  *)
(* fragment of that call alone, has no loading class, and has the error    *)
(* class exactly when the call was an error display, whatever the region   *)
(* held before.                                                            *)
(***************************************************************************)
Settling == last.step \in {"resolve", "reject"}

\* the last display call was displayResult(region, message, true)
ShownAsError == last.step = "reject" \/ last.raised

ErrorMessage == IF last.step = "reject" THEN last.data.v ELSE NullMessage

ExpectedBox ==
  IF ShownAsError
  THEN [innerHTML |-> <<ErrorOpen>> \o ErrorMessage \o <<ParClose>>,
        classList |-> {"error"}]
  ELSE [innerHTML |-> Render(last.data).html, classList |-> {}]

C12_RegionDependsOnCallOnly ==
  Settling
  => /\ region[last.panel] = ExpectedBox
     /\ "loading" \notin region[last.panel].classList
     /\ ("error" \in region[last.panel].classList) <=> ShownAsError

\* a response shown over what a later request of the panel had left
C12_Witness ==
  /\ Displayed /\ ~last.raised /\ last.stale
  /\ pending[last.panel] = <<>>
  /\ region[last.panel] = ExpectedBox
  /\ SuccessBanner \in Range(Shown)

(***************************************************************************)
(* C13: after a request failed at fetch or at response.json(), the region  *)
(* shows the paragraph "Error: <message>" with the error class, and        *)
(* formatSuccessResult, formatData and formatObject were not called.       *)
(***************************************************************************)
C13_TransportFailureShown ==
  last.step = "reject"
  => /\ Shown = <<ErrorOpen>> \o last.data.v \o <<ParClose>>
     /\ "error" \in ShownClasses
     /\ last.calls \cap {"formatSuccessResult", "formatData", "formatObject"}
          = {}
     /\ Range(Shown) \cap Markup = {ErrorOpen, ParClose}

C13_Witness ==
  /\ last.step = "reject"
  /\ Shown = <<ErrorOpen>> \o last.data.v \o <<ParClose>>
  /\ ShownClasses = {"error"}

(***************************************************************************)
(* C14: a step of one panel's handler leaves the region and the requests   *)
(* of every other panel as they were, and a response or failure leaves     *)
(* its own region as it would with no other panel in use.                  *)
(***************************************************************************)
C14_PanelsIndependent ==
  [][/\ \A p \in Panels :
          p # last'.panel
          => (region'[p] = region[p] /\ pending'[p] = pending[p])
     /\ last'.step \in {"resolve", "reject"}
          => region'[last'.panel] =
               (IF last'.step = "reject" \/ last'.raised
                THEN [innerHTML |-> <<ErrorOpen>>
                        \o (IF last'.step = "reject" THEN last'.data.v
                            ELSE NullMessage)
                        \o <<ParClose>>,
                      classList |-> {"error"}]
                ELSE [innerHTML |-> Render(last'.data).html,
                      classList |-> {}])]_vars

\* a request of the weather panel started and settled while one of the
\* geocode panel is in flight, and the geocode panel still loading
C14_Witness ==
  /\ Settling /\ last.panel = "weather-current-result"
  /\ region["weather-current-result"] = ExpectedBox
  /\ pending["tt-geocode-result"] # <<>>
  /\ region["tt-geocode-result"] = [innerHTML |-> <<>>, classList |-> {"loading"}]

(***************************************************************************)
(* C16: requests of one panel are neither cancelled nor ordered: the       *)
(* response of a request that a later request has overtaken is displayed   *)
(* when it settles, so the region holds what settled last.                 *)
(***************************************************************************)
C16_LastSettledIsShown ==
  (Settling /\ last.stale) => region[last.panel] = ExpectedBox

\* the earlier request's response replaced the later request's
C16_Witness ==
  /\ Displayed /\ last.stale /\ ~last.raised
  /\ pending[last.panel] = <<>>
  /\ last.data.t = "obj" /\ ~MarkedSuccess(last.data)
  /\ Shown = <<PreOpen>> \o Stringify(last.data) \o <<PreClose>>

(***************************************************************************)
(* C18: a request that settled leaves its region without the loading      *)
(* class, on the success, non-success, failure and raise paths; a region   *)
(* with no request in flight is not loading.                               *)
(***************************************************************************)
C18_SettledNotLoading ==
  /\ Settling => "loading" \notin region[last.panel].classList
  /\ \A p \in Panels :
       pending[p] = <<>> => "loading" \notin region[p].classList

\* the raise path: the response null
C18_Witness ==
  /\ Displayed /\ last.raised /\ last.data = Null
  /\ region[last.panel].classList = {"error"}
  /\ pending[last.panel] = <<>>

(***************************************************************************)
(* C19 as claimed: a region has the loading class exactly while a request  *)
(* for it is in flight.                                                    *)
(***************************************************************************)
C19_LoadingIffInFlight ==
  \A p \in Panels :
    ("loading" \in region[p].classList) <=> (pending[p] # <<>>)

(***************************************************************************)
(* C19 amended: a region has the loading class from the start of a request *)
(* until the next request of the region settles, other requests of the     *)
(* region still in flight or not: a loading region has a request in        *)
(* flight, a request that starts sets the class and a request that         *)
(* settles removes it.                                                     *)
(***************************************************************************)
C19_LoadingUntilNextSettle ==
  /\ \A p \in Panels :
       "loading" \in region[p].classList => pending[p] # <<>>
  /\ last.step = "request"
       => ("loading" \in region[last.panel].classList
           /\ region[last.panel].innerHTML = <<>>)
  /\ Settling => "loading" \notin region[last.panel].classList

\* a request still in flight in a region that is no longer loading
C19_Witness ==
  /\ Settling
  /\ pending[last.panel] # <<>>
  /\ "loading" \notin region[last.panel].classList

(***************************************************************************)
(* C20: no region has the loading class and the error class together.      *)
(* setLoading leaves the error class of an earlier failure in place.       *)
(***************************************************************************)
C20_NeverLoadingAndError ==
  \A p \in Panels : ~({"loading", "error"} \subseteq region[p].classList)

(***************************************************************************)
(* C15: chatHistory is append-only: no step shortens it or changes an      *)
(* entry it holds, and every addChatMessage call of a step appends one     *)
(* entry at the end.                                                       *)
(***************************************************************************)
C15_AppendOnly ==
  [][/\ Len(chatHistory') >= Len(chatHistory)
     /\ SubSeq(chatHistory', 1, Len(chatHistory)) = chatHistory
     /\ Len(chatHistory') = Len(chatHistory) + lastChat'.calls]_vars

\* the part of C15 that does not count the calls: the log only grows, by
\* at most one entry a step, and an empty send leaves it alone
C15_LogOnlyGrows ==
  [][/\ SubSeq(chatHistory', 1, Len(chatHistory)) = chatHistory
     /\ Len(chatHistory') \in {Len(chatHistory), Len(chatHistory) + 1}
     /\ lastChat'.step \in {"send", "resolve", "reject"}
          <=> Len(chatHistory') = Len(chatHistory) + 1]_vars

(***************************************************************************)
(* C17: a send appends the user entry before its fetch; the exchange that  *)
(* settles appends exactly one reply after it: role system and an          *)
(* "Error: " text when the response has a truthy error field or the call   *)
(* failed, role assistant otherwise.                                       *)
(***************************************************************************)
LastEntry == chatHistory[Len(chatHistory)]

ClaimedReplyRole ==
  IF lastChat.step = "reject" \/ Truthy(Get(lastChat.data, K_error))
  THEN "system" ELSE "assistant"

C17_UserThenOneReply ==
  /\ lastChat.step = "send"
       => /\ Len(chatHistory) = lastChat.len0 + 1
          /\ LastEntry.role = "user"
          /\ \E i \in DOMAIN chatPending :
               chatPending[i].at = Len(chatHistory)
  /\ lastChat.step \in {"resolve", "reject"}
       => /\ Len(chatHistory) = lastChat.len0 + 1
          /\ lastChat.at < Len(chatHistory)
          /\ chatHistory[lastChat.at].role = "user"
          /\ LastEntry.role = ClaimedReplyRole
          /\ LastEntry.role = "system"
               => StartsWith(LastEntry.content, ErrorPrefix)

\* the part of C17 that does not name the role: one user entry for each
\* exchange, one reply for each settled exchange, the user entry first
C17_TwoEntriesAnExchange ==
  /\ Len(chatHistory) =
       1 + 2 * Cardinality({i \in DOMAIN chatHistory :
                              chatHistory[i].role = "user"})
         - Len(chatPending)
  /\ lastChat.step \in {"resolve", "reject"}
       => /\ Len(chatHistory) = lastChat.len0 + 1
          /\ lastChat.at < Len(chatHistory)
          /\ chatHistory[lastChat.at].role = "user"
          /\ LastEntry.role # "user"

(***************************************************************************)
(* C21: a handler invoked with its required input missing changes          *)
(* nothing: a panel handler whose field is empty, or whose list of         *)
(* locations or URLs has no entry, calls neither setLoading nor fetch and  *)
(* leaves every region and request as it was; sendChatMessage with an      *)
(* empty or blank message leaves the log, the bubbles, the requests in     *)
(* flight and the disabled flag of the send button as they were.           *)
(***************************************************************************)
\* no character of text is other than white space
Blank(text) == \A i \in DOMAIN text : text[i] \in {" ", "\n", "\t"}

\* the required input of panel p is missing from text
ClaimedMissing(p, text) ==
  CASE p = "eg-heatmap-result" ->
         \A i \in DOMAIN text : text[i] \in {" ", "\n", "\t", ","}
    [] p = "fetch-multiple-result" -> Blank(text)
    [] OTHER -> text = <<>>

C21_MissingInputChangesNothing ==
  [][/\ (/\ last' # last
         /\ last'.step \in {"alert", "request"}
         /\ ClaimedMissing(last'.panel, last'.data.v))
        => /\ region' = region
           /\ pending' = pending
           /\ last'.calls \cap {"setLoading", "fetch"} = {}
           /\ UNCHANGED chatVars
     /\ (/\ lastChat' # lastChat
         /\ lastChat'.step \in {"empty", "send"}
         /\ Blank(lastChat'.data.v))
        => /\ chatHistory' = chatHistory
           /\ chatMessages' = chatMessages
           /\ chatPending' = chatPending
           /\ sendDisabled' = sendDisabled
           /\ UNCHANGED panelVars]_vars

\* emotionalHeatmap invoked with separators and white space only, after a
\* request of its own had failed: the error display stays
C21_Witness ==
  /\ last.step = "alert" /\ last.panel = "eg-heatmap-result"
  /\ last.data.v = <<" ", ",", "\n">>
  /\ region["eg-heatmap-result"].classList = {"error"}
  /\ region["eg-heatmap-result"].innerHTML # <<>>
  /\ pending["eg-heatmap-result"] = <<>>
  /\ region["tt-geocode-result"].classList = {"loading"}

\* sendChatMessage by Enter with a blank message while a request is in
\* flight: two entries, one request, the button disabled
C21_BlankMessageIgnored ==
  /\ lastChat.step = "empty" /\ lastChat.trigger = "enter"
  /\ lastChat.data.v = <<" ">>
  /\ Len(chatHistory) = 2 /\ Len(chatPending) = 1 /\ sendDisabled
  /\ chatInput = <<" ">>

(***************************************************************************)
(* C22: the send button is disabled whenever a chat request is in flight,  *)
(* and at most one chat request is in flight, whether the send came from   *)
(* the button, the Enter key or askSuggestion.                             *)
(***************************************************************************)
C22_DisabledWhileInFlight ==
  /\ chatPending # <<>> => sendDisabled
  /\ Len(chatPending) <= 1

(***************************************************************************)
(* C23: a chat exchange that settles leaves the send button enabled, on    *)
(* the assistant reply, the error field, the failed call and the raise     *)
(* alike; with no chat request in flight the button is enabled.            *)
(***************************************************************************)
ChatSettling == lastChat.step \in {"resolve", "reject"}

C23_SettledReenables ==
  /\ ChatSettling => ~sendDisabled
  /\ chatPending = <<>> => ~sendDisabled

\* the exchange settled on a null body, which raises in the try block
C23_Witness ==
  /\ lastChat.step = "resolve" /\ lastChat.data = Null
  /\ lastChat.role = "system"
  /\ chatPending = <<>>
  /\ ~sendDisabled

(***************************************************************************)
(* C24: #chat-messages holds as many typing indicators as chat requests    *)
(* are in flight, and an exchange that settles removes exactly one.        *)
(***************************************************************************)
C24_IndicatorsMatchRequests ==
  /\ TypingCount(chatMessages) = Len(chatPending)
  /\ ChatSettling => lastChat.removed = 1

\* the parts of C24 that hold: never more indicators than requests, none
\* with no request in flight, one added by each send, and two removed by
\* one exchange only when its try block raised
C24_IndicatorsAtMostRequests ==
  /\ TypingCount(chatMessages) <= Len(chatPending)
  /\ chatPending = <<>> => TypingCount(chatMessages) = 0
  /\ lastChat.step = "send" => chatMessages[Len(chatMessages)].kind = "typing"
  /\ (ChatSettling /\ lastChat.removed = 2)
       => (lastChat.data = Null \/ lastChat.calls = 2)

====
